---- MODULE Spec2Model ----
(***************************************************************************)
(* Model of app.py, the DME/CDFA descent planner.                          *)
(*                                                                         *)
(* The script is a Streamlit page: every run reads the sidebar widgets and *)
(* computes, top to bottom, the glide-path geometry, the DME table and the *)
(* ROD table from the widget values.  Nothing is kept between runs.        *)
(*                                                                         *)
(* Units.  A distance a widget returns is an integer number of thousandths *)
(* of a nautical mile (6.0 NM = 6000, 1.205 NM = 1205).  Altitudes are     *)
(* integer feet.  Angles are hundredths of a degree, gradients hundredths  *)
(* of a percent, times hundredths of a minute.                             *)
(*                                                                         *)
(* Floats.  The script computes distances in IEEE double precision, and    *)
(* several of its decisions fall on values where the rounding error of a   *)
(* double decides: int(2.3 - 0.3) is 1, 6.01 - 6.0 < 0.01 holds,           *)
(* round(1.205, 2) is 1.21.  A double of the distance computation is the   *)
(* record [n, d, c, q]: its exact value is                                 *)
(*      n / (1000 d)  +  c / (1000 d 2^q)   nautical miles,                *)
(* the decimal value n/d (in thousandths) that real arithmetic would give  *)
(* plus the exact error of the double.  RoundToDouble is IEEE              *)
(* round-to-nearest-even, computed on residues so that no number exceeds   *)
(* 32 bits.  An altitude is kept as the exact fraction [n, d]; where the   *)
(* script rounds an altitude, a rate or a time that is an exact tie in     *)
(* real arithmetic, both neighbours are possible outcomes.                 *)
(***************************************************************************)
EXTENDS Integers, Sequences, FiniteSets

VARIABLES
    elevation,          \* Threshold Elevation (ft)
    mda,                \* Minimum Descent Altitude (ft)
    tod_alt,            \* Top of Descent Altitude (ft)
    dme_thr,            \* DME at Threshold
    dme_faf,            \* DME at FAF
    dme_mapt,           \* DME at MAPt
    faf_mapt_distance,  \* Distance FAF to MAPt
    sdfs,               \* step-down fixes, a sequence of [Distance, Altitude, Label]
    gp_angle_deg,       \* glide-path angle, hundredths of a degree
    descent_gradient,   \* descent gradient, hundredths of a percent
    dme_table,          \* rows [Distance, Altitude, Fix]
    rod_df,             \* rows [GS, ROD, Time]
    pc                  \* the section of the script that runs next

inputVars == <<elevation, mda, tod_alt, dme_thr, dme_faf, dme_mapt,
               faf_mapt_distance, sdfs>>
outputVars == <<gp_angle_deg, descent_gradient, dme_table, rod_df>>
vars == <<inputVars, outputVars, pc>>

(***************************************************************************)
(* Bounds of the model and constants of the program.                       *)
(***************************************************************************)
MaxSdfCount == 2          \* step-down fixes explored (the slider allows SdfSliderMax)
SdfSliderMax == 6
MaxRows == 8
FtPerNmX100 == 607612     \* 6076.12 ft per NM, in hundredths of a foot

\* The values explored for each widget, the widget's default first.
ElevationValues == <<150, 0>>
MdaValues == <<450, 800>>
TodAltValues == <<2000, 3000, 800>>
DmeThrValues == <<500, 1200, 1204, 600>>
DmeFafValues == <<6000, 10200, 5200, 500, 8200>>
DmeMaptValues == <<1200, 700, 6000>>
FafMaptDistanceValues == <<4800, 5200, 0>>
\* values explored for the distance of the i-th step-down fix besides its
\* default; the fixes after these keep their default
SdfDistanceValues == <<{4800, 6000, 6010, 1205}, {4800}>>

(***************************************************************************)
(* Arithmetic helpers.                                                     *)
(***************************************************************************)
Abs(x) == IF x < 0 THEN -x ELSE x
Min(a, b) == IF a < b THEN a ELSE b
Max(a, b) == IF a > b THEN a ELSE b

RECURSIVE Gcd(_, _)
Gcd(a, b) == IF b = 0 THEN a ELSE Gcd(b, a % b)

\* n/d (d > 0) rounded to the nearest integer, ties to the even one
RoundHalfEven(n, d) ==
    LET q == n \div d
        r == n % d
    IN  IF 2 * r < d THEN q
        ELSE IF 2 * r > d THEN q + 1
        ELSE IF q % 2 = 0 THEN q ELSE q + 1

\* round() of a float the script has computed by division.  The float carries
\* the rounding error of the operations before it, so when n/d is an exact tie
\* in real arithmetic that error decides the direction: either neighbour is a
\* possible outcome.  Away from a tie the result is the nearest integer.
RoundFloat(n, d) ==
    IF 2 * (n % d) = d THEN {n \div d, (n \div d) + 1}
    ELSE {RoundHalfEven(n, d)}

\* the sequences whose i-th element is drawn from the i-th set
RECURSIVE SeqProduct(_)
SeqProduct(sets) ==
    IF sets = <<>> THEN {<<>>}
    ELSE {<<h>> \o t : h \in Head(sets), t \in SeqProduct(Tail(sets))}

(***************************************************************************)
(* IEEE doubles of the distance computation.                               *)
(***************************************************************************)
\* x * 2^k mod m
RECURSIVE MulPow2Mod(_, _, _)
MulPow2Mod(x, k, m) ==
    IF k <= 10 THEN ((x % m) * 2^k) % m
    ELSE MulPow2Mod(((x % m) * 1024) % m, k - 10, m)

\* the same value with the smallest q
Normalize(f) ==
    IF f.c = 0 THEN [f EXCEPT !.q = 0]
    ELSE LET k == CHOOSE j \in 0..Min(f.q, 30) :
                     /\ f.c % 2^j = 0
                     /\ j = Min(f.q, 30) \/ f.c % 2^(j + 1) # 0
         IN  [f EXCEPT !.c = f.c \div 2^k, !.q = f.q - k]

\* the binary exponent of n/d > 0: the e with 2^e <= n/d < 2^(e+1)
Log2Floor(n, d) ==
    IF n >= d THEN CHOOSE e \in 0..30 : 2^e <= n \div d /\ n \div d < 2 * 2^e
    ELSE -(CHOOSE k \in 1..30 : d <= n * 2^k /\ n * 2^k < 2 * d)

IsPow2(n, d, e) == IF e >= 0 THEN n = d * 2^e ELSE n * 2^(-e) = d

\* The double nearest to the real number n/d + c/(d 2^q), for n > 0 and an
\* error term that is tiny against n/d.  The doubles around the value are the
\* multiples of 2^-p (53 significant bits, p = 52 - e for the binary exponent e
\* of the value); the value is W = T/Q of them, and the residue t of T modulo
\* 2Q gives the distance r to the multiple below and whether that multiple is
\* even.

\* the step to the nearest multiple, ties to the even one
Delta(Q, t, r) ==
    IF 2 * r > Q \/ (2 * r = Q /\ t >= Q) THEN Q - r ELSE -r

NearestDouble(n, d, Tc, pq, Q, t) ==
    Normalize([n |-> n, d |-> d, c |-> Tc + Delta(Q, t, t % Q), q |-> pq])

\* the error term brought to the denominator Q = d 2^s of the residues
RoundResidue(n, d, c, qq, p, s) ==
    NearestDouble(n, d, c * 2^(p + s - qq), p + s, d * 2^s,
                  (2^s * MulPow2Mod(n, p, 2 * d) + c * 2^(p + s - qq))
                      % (2 * d * 2^s))

\* a value that is a multiple of 2^-p already is the result
RoundInBinade(n, d, c, qq, p) ==
    IF /\ p > qq
       /\ (MulPow2Mod(n, p, d) + MulPow2Mod(c % d, p - qq, d)) % d = 0
    THEN Normalize([n |-> n, d |-> d, c |-> c, q |-> qq])
    ELSE RoundResidue(n, d, c, qq, p, IF qq > p THEN qq - p ELSE 0)

\* the binary exponent of the value: the one of n/d, unless n/d is a power of
\* two and the error term takes the value below it
Exponent(n, d, c, e0) == IF IsPow2(n, d, e0) /\ c < 0 THEN e0 - 1 ELSE e0

RoundWithExponent(n, d, c, q, e) ==
    RoundInBinade(n, d, c, IF c = 0 THEN 52 - e ELSE q, 52 - e)

RoundPositive(n, d, c, q) ==
    RoundWithExponent(n, d, c, q, Exponent(n, d, c, Log2Floor(n, d)))

\* f or -f
WithSign(f, sign) == [f EXCEPT !.n = sign * f.n, !.c = sign * f.c]

\* the same for any sign; a value whose decimal part n is 0 is a difference of
\* two neighbouring doubles and is a double itself
RoundSigned(n, d, c, q) ==
    IF n = 0 THEN Normalize([n |-> 0, d |-> d, c |-> c, q |-> q])
    ELSE IF n > 0 THEN RoundPositive(n, d, c, q)
    ELSE WithSign(RoundPositive(-n, d, -c, q), -1)

\* the double nearest to n/(1000 d) + c/(1000 d 2^q) NM, as [n, d, c, q]
RoundToDouble(n, d, c, q) == [RoundSigned(n, 1000 * d, c, q) EXCEPT !.d = d]

\* the float a number_input returns for the distance k/1000 NM
Float(k) == RoundToDouble(k, 1, 0, 0)

\* two doubles brought to the same d and q
Unify(a, b) ==
    LET d == (a.d \div Gcd(a.d, b.d)) * b.d
        qa == IF a.c # 0 THEN a.q ELSE b.q
        qb == IF b.c # 0 THEN b.q ELSE a.q
        q == Max(qa, qb)
    IN  [d |-> d, q |-> q,
         na |-> a.n * (d \div a.d), ca |-> a.c * (d \div a.d) * 2^(q - qa),
         nb |-> b.n * (d \div b.d), cb |-> b.c * (d \div b.d) * 2^(q - qb)]

\* a + b and a - b in double precision
RoundSum(u) == RoundToDouble(u.na + u.nb, u.d, u.ca + u.cb, u.q)

FAdd(a, b) == RoundSum(Unify(a, b))

FSub(a, b) == RoundSum(Unify(a, WithSign(b, -1)))

\* i * a and a / k in double precision, for integers i >= 0 and k > 0
FMulInt(i, a) == RoundToDouble(i * a.n, a.d, i * a.c, a.q)

FDivInt(a, k) == RoundToDouble(a.n, a.d * k, a.c, a.q)

\* -1, 0 or 1 as a < b, a = b or a > b
CmpUnified(u) ==
    IF u.na # u.nb THEN (IF u.na < u.nb THEN -1 ELSE 1)
    ELSE IF u.ca < u.cb THEN -1
    ELSE IF u.ca > u.cb THEN 1 ELSE 0

FCmp(a, b) == CmpUnified(Unify(a, b))

\* the same between the double a and the float of the input k/1000 NM: the
\* decimal parts decide unless they are equal
FCmpInput(a, k) ==
    IF a.n # k * a.d THEN (IF a.n < k * a.d THEN -1 ELSE 1)
    ELSE FCmp(a, Float(k))

\* abs(a)
FAbs(a) ==
    IF a.n < 0 \/ (a.n = 0 /\ a.c < 0) THEN WithSign(a, -1) ELSE a

\* int(a) for a >= 0
FInt(a) ==
    LET m == a.n \div (1000 * a.d)
    IN  IF a.n % (1000 * a.d) = 0 /\ a.c < 0 THEN m - 1 ELSE m

\* the integer nearest to k times the exact value of the double a; an exact tie
\* goes to the even integer
NearestMultiple(a, k) ==
    LET num == k * a.n
        den == 1000 * a.d
        m == num \div den
        r == num % den
    IN  IF 2 * r < den THEN m
        ELSE IF 2 * r > den THEN m + 1
        ELSE IF a.c > 0 THEN m + 1
        ELSE IF a.c < 0 THEN m
        ELSE IF m % 2 = 0 THEN m ELSE m + 1

\* round(x, 2) of the Python float x = dist/1000 NM, correctly rounded from
\* the exact value of the double (a double is within 2^-40 of its decimal
\* value, so only a third decimal of 5 needs it); the result is again in
\* thousandths
Round2(dist) ==
    IF dist % 10 # 5 THEN 10 * RoundHalfEven(dist, 10)
    ELSE 10 * NearestMultiple(Float(dist), 100)

\* round(dme, 2) of a numpy float64: np.rint(dme * 100) / 100, the product
\* taken in double precision; in thousandths
Round2Numpy(dme) == 10 * NearestMultiple(FMulInt(100, dme), 1)

(***************************************************************************)
(* Sidebar: the step-down fix widgets and their default values.            *)
(***************************************************************************)
SdfLabel(i) == CASE i = 1 -> "SDF1" [] i = 2 -> "SDF2" [] i = 3 -> "SDF3"
                 [] i = 4 -> "SDF4" [] i = 5 -> "SDF5" [] OTHER -> "SDF6"

\* value=3.5 - i and value=900 - 100*i for the 0-based i of the loop
SdfDefault(i) ==
    [Distance |-> 3500 - 1000 * (i - 1), Altitude |-> 900 - 100 * (i - 1),
     Label |-> SdfLabel(i)]

CurrentInputs ==
    [elevation |-> elevation, mda |-> mda, tod_alt |-> tod_alt,
     dme_thr |-> dme_thr, dme_faf |-> dme_faf, dme_mapt |-> dme_mapt,
     faf_mapt_distance |-> faf_mapt_distance, sdfs |-> sdfs]

(***************************************************************************)
(* The anchor list: FAF, step-down fixes, MAPt, THR; deduplicated by the   *)
(* distance rounded to two decimals; sorted by descending distance.        *)
(***************************************************************************)
AllFixes(p) ==
    <<[Distance |-> p.dme_faf, Altitude |-> p.tod_alt, Label |-> "FAF"]>>
    \o p.sdfs
    \o <<[Distance |-> p.dme_mapt, Altitude |-> p.mda, Label |-> "MAPt"],
         [Distance |-> p.dme_thr, Altitude |-> p.elevation, Label |-> "THR"]>>

\* d[k] = f on a dict kept as the sequence of its items: a key that is
\* present keeps its place and takes the new value, a new key goes last
SetItem(d, k, f) ==
    IF \E i \in 1..Len(d) : d[i].key = k
    THEN [d EXCEPT ![CHOOSE i \in 1..Len(d) : d[i].key = k] =
                       [key |-> k, value |-> f]]
    ELSE Append(d, [key |-> k, value |-> f])

\* {round(f["Distance"], 2): f for f in fixes}, from the i-th fix on
RECURSIVE UniqueFrom(_, _, _)
UniqueFrom(fs, i, d) ==
    IF i > Len(fs) THEN d
    ELSE UniqueFrom(fs, i + 1, SetItem(d, Round2(fs[i].Distance), fs[i]))

\* list(unique_fixes.values())
RECURSIVE DictValues(_, _, _)
DictValues(d, i, acc) ==
    IF i > Len(d) THEN acc ELSE DictValues(d, i + 1, Append(acc, d[i].value))

UniqueFixes(fs) == DictValues(UniqueFrom(fs, 1, <<>>), 1, <<>>)

\* f put into a list sorted by descending distance, after the fixes that are
\* at least as far
InsertDesc(sorted, f) ==
    LET k == Cardinality({i \in 1..Len(sorted) : sorted[i].Distance >= f.Distance})
    IN  SubSeq(sorted, 1, k) \o <<f>> \o SubSeq(sorted, k + 1, Len(sorted))

RECURSIVE SortFrom(_, _, _)
SortFrom(fs, i, sorted) ==
    IF i > Len(fs) THEN sorted
    ELSE SortFrom(fs, i + 1, InsertDesc(sorted, fs[i]))

\* fixes.sort(key=lambda x: -x["Distance"]): a stable sort.
SortByDistanceDesc(fs) == SortFrom(fs, 1, <<>>)

Fixes(p) == SortByDistanceDesc(UniqueFixes(AllFixes(p)))

(***************************************************************************)
(* The sampled distances.                                                  *)
(***************************************************************************)
\* end = max(dme_thr, dme_mapt)
SampleEnd(p) == IF p.dme_thr > p.dme_mapt THEN p.dme_thr ELSE p.dme_mapt

\* steps = int(abs(start - end)) + 1, the difference taken in double precision
Steps(p) ==
    FInt(FAbs(FSub(Float(p.dme_faf), Float(SampleEnd(p))))) + 1

\* np.linspace(start, end, num): step = (end - start) / (num - 1), the
\* samples i * step + start for i = 0 .. num - 1, the last one set to end; a
\* single sample is start.
Linspace(start, end, num) ==
    IF num = 0 THEN <<>>
    ELSE IF num = 1 THEN <<start>>
    ELSE LET step == FDivInt(FSub(end, start), num - 1)
         IN  [i \in 1..num |->
                 IF i = num THEN end ELSE FAdd(FMulInt(i - 1, step), start)]

DmePoints(p) == Linspace(Float(p.dme_faf), Float(SampleEnd(p)), Steps(p))

\* if dme > dme_faf or dme < dme_thr: continue
Skipped(p, dme) ==
    FCmpInput(dme, p.dme_faf) > 0 \/ FCmpInput(dme, p.dme_thr) < 0

KeptPoints(p) == SelectSeq(DmePoints(p), LAMBDA dme : ~Skipped(p, dme))

(***************************************************************************)
(* One row of the table.                                                   *)
(***************************************************************************)
\* abs(f["Distance"] - dme) < 0.01: the difference of the doubles is within
\* 2^-40 of the difference of the decimal values, so the decimal values decide
\* unless they differ by exactly 0.01
Matches(f, dme) ==
    LET diff == Abs(f.Distance * dme.d - dme.n)
    IN  IF diff # 10 * dme.d THEN diff < 10 * dme.d
        ELSE FCmp(FAbs(FSub(Float(f.Distance), dme)), Float(10)) < 0

\* next((f for f in seq if ...), None) over the indices that pass the test:
\* None is the empty sequence here, a found fix the one-element sequence
FirstAt(fs, hits) ==
    IF hits = {} THEN <<>>
    ELSE <<fs[CHOOSE i \in hits : \A j \in hits : i <= j]>>

\* the same over reversed(seq)
LastAt(fs, hits) ==
    IF hits = {} THEN <<>>
    ELSE <<fs[CHOOSE i \in hits : \A j \in hits : i >= j]>>

\* matching_fix = next((f for f in fixes if abs(f["Distance"] - dme) < 0.01), None)
MatchingFix(fs, dme) ==
    FirstAt(fs, {i \in 1..Len(fs) : Matches(fs[i], dme)})

\* above = next((f for f in fixes if f["Distance"] >= dme), None)
Above(fs, dme) ==
    FirstAt(fs, {i \in 1..Len(fs) : FCmpInput(dme, fs[i].Distance) <= 0})

\* below = next((f for f in reversed(fixes) if f["Distance"] <= dme), None)
Below(fs, dme) ==
    LastAt(fs, {i \in 1..Len(fs) : FCmpInput(dme, fs[i].Distance) >= 0})

\* ratio = (dme - below.D) / (above.D - below.D)
\* alt = below.A + ratio * (above.A - below.A), as the exact fraction of the
\* decimal values
Interpolate(above, below, dme) ==
    LET span == above.Distance - below.Distance
    IN  [n |-> below.Altitude * dme.d * span
               + (dme.n - below.Distance * dme.d)
                 * (above.Altitude - below.Altitude),
         d |-> dme.d * span]

\* the else branch of the loop: the altitude of a sample no fix matches
InterpolatedAlt(p, fs, dme) ==
    LET above == Above(fs, dme)
        below == Below(fs, dme)
    IN  IF above # <<>> /\ below # <<>> /\ above[1] # below[1]
        THEN Interpolate(above[1], below[1], dme)
        ELSE [n |-> p.elevation, d |-> 1]

\* alt = max(alt, mda) if dme <= dme_mapt else alt
ClampToMda(p, dme, alt) ==
    IF FCmpInput(dme, p.dme_mapt) <= 0 /\ alt.n < p.mda * alt.d
    THEN [n |-> p.mda, d |-> 1]
    ELSE alt

\* the altitude of a sample before it is rounded, m its matching_fix
RowAlt(p, fs, dme, m) ==
    LET alt == IF m # <<>> THEN [n |-> m[1].Altitude, d |-> 1]
               ELSE InterpolatedAlt(p, fs, dme)
    IN  ClampToMda(p, dme, alt)

RowLabel(m) == IF m # <<>> THEN m[1].Label ELSE ""

\* the rows dme_table.append({...}) can append for one sample
Row(p, fs, dme) ==
    LET m == MatchingFix(fs, dme)
        alt == RowAlt(p, fs, dme, m)
        dist == Round2Numpy(dme)
    IN  {[Distance |-> dist, Altitude |-> a, Fix |-> RowLabel(m)] :
            a \in RoundFloat(alt.n, alt.d)}

\* Trim with the slice forgotten
TrimNothing(t) == t

\* dme_table = dme_table[:8]
Trim(t) == SubSeq(t, 1, Min(Len(t), MaxRows))

\* the tables the loop and the trim can produce
DmeTable(p) ==
    LET fs == Fixes(p)
        pts == KeptPoints(p)
    IN  {Trim(t) : t \in SeqProduct([i \in 1..Len(pts) |-> Row(p, fs, pts[i])])}

(***************************************************************************)
(* Glide-path geometry.                                                    *)
(*                                                                         *)
(* For the decimal distance dist = dme_faf - dme_thr the slope              *)
(* vertical_ft / horizontal_ft is the exact fraction                       *)
(*      VerticalFt * 10^5 / (dist * FtPerNmX100).                          *)
(* The gradient is its decimal expansion.  The angle is computed in fixed  *)
(* point with 28 binary digits: atan from its series after the usual range *)
(* reductions.  The script subtracts doubles: the difference carries the   *)
(* errors of its two operands, which cancellation makes large against a    *)
(* small difference (32.002 - 32.001 = 0.0010000000000047748).  The        *)
(* gradient is corrected by that relative error, the angle allows for it.  *)
(* Both are shown with two decimals; when the computed value lies closer   *)
(* to a rounding boundary than the error that remains (the model's and the *)
(* doubles'), both neighbours are possible.                                *)
(***************************************************************************)
\* horizontal_ft = (dme_faf - dme_thr) * 6076.12, as its two factors: dist
\* thousandths of a NM times ftPerNm hundredths of a foot, i.e.
\* dist * ftPerNm / 10^5 ft.  It is 0 exactly when the two floats are equal.
\* dist is the decimal value of the difference; DistanceError is what the
\* double dme_faf - dme_thr adds to it.
HorizontalFt(p) == [dist |-> p.dme_faf - p.dme_thr, ftPerNm |-> FtPerNmX100]

\* dme_faf - dme_thr as the script computes it: the double [n, d, c, q] with
\* n = dist and the error c / 2^q thousandths of the two inputs and of the
\* subtraction
DistanceError(p) == FSub(Float(p.dme_faf), Float(p.dme_thr))

\* the number of binary digits of x >= 0
BitLength(x) ==
    IF x = 0 THEN 0 ELSE 1 + CHOOSE k \in 0..30 : 2^k <= x /\ x \div 2 < 2^k

\* An error term is kept to 15 significant bits, as m * 2^e with m < 2^15.
Shorten(m, e, s) == [m |-> m \div 2^s, e |-> e + s]

Approx15(m, e) == Shorten(m, e, Max(BitLength(m) - 15, 0))

ApproxMul(a, b) == Approx15(a.m * b.m, a.e + b.e)

ApproxDiv(a, b) == Approx15((a.m * 32768) \div b.m, a.e - 15 - b.e)

\* a / 2^k
ApproxShift(a, k) == [a EXCEPT !.e = a.e - k]

\* the integer part of m * 2^e, at most 2^30
ApproxInt(a) ==
    IF a.e >= 0 THEN (IF BitLength(a.m) + a.e <= 30 THEN a.m * 2^a.e ELSE 2^30)
    ELSE IF -a.e > 30 THEN 0
    ELSE a.m \div 2^(-a.e)

\* |c / (n 2^q)|, the relative error of the double f = dme_faf - dme_thr, and
\* its sign: 1 when the double is the larger in absolute value
RelativeError(f) ==
    ApproxShift(ApproxDiv(Approx15(Abs(f.c), 0), Approx15(Abs(f.n), 0)), f.q)

ErrorSign(f) ==
    IF f.c = 0 THEN 0 ELSE IF (f.c > 0) = (f.n > 0) THEN 1 ELSE -1

\* vertical_ft = tod_alt - elevation
VerticalFt(p) == p.tod_alt - p.elevation

\* the sign of vertical_ft / horizontal_ft
SlopeSign(p) ==
    IF VerticalFt(p) = 0 THEN 0
    ELSE IF (VerticalFt(p) < 0) = (HorizontalFt(p).dist < 0) THEN 1 ELSE -1

\* Long division of a number by the product b1 * b2, digit by digit in the
\* given base: the digits of num from position i down to 0, then zeros down
\* to position last, continue the quotient q with remainders r1 (of b1) and
\* r2 (of b2).  From q = r1 = r2 = 0 the result is
\* floor(num * base^(-last) / (b1 * b2)).
RECURSIVE LongDiv2(_, _, _, _, _, _, _, _, _)
LongDiv2(q, r1, r2, num, i, last, b1, b2, base) ==
    IF i < last THEN [q |-> q, r1 |-> r1, r2 |-> r2]
    ELSE LET digit == IF i >= 0 THEN (num \div base^i) % base ELSE 0
             t1 == r1 * base + digit
             t2 == r2 * base + t1 \div b1
         IN  LongDiv2(q * base + t2 \div b2, t1 % b1, t2 % b2,
                      num, i - 1, last, b1, b2, base)

\* The integers a value m + f/unit can round to when it is known to within
\* guard/unit: first for 0 <= f < unit, then for any f.
RoundRange(m, f, unit, guard) ==
    {m + k : k \in (-((unit - 2 * (f - guard)) \div (2 * unit)))
                     ..((2 * (f + guard) + unit) \div (2 * unit))}

RoundWithin(m, f, unit, guard) ==
    RoundRange(m + f \div unit, f % unit, unit, guard)

\* 2^28, the unit of the fixed-point numbers of the angle computation
FixedOne == 268435456
\* pi/4, pi/2 and tan(pi/8) in units of 2^-28
PiOver4 == 210828714
PiOver2 == 421657428
TanPiOver8 == 111189606
\* 18000/pi, hundredths of a degree per radian, in units of 2^-16
CentiDegPerRad == 375493621
\* the error bound of the angle computation for an exact distance, in 2^-16
\* hundredths of a degree
AngleGuard == 16
\* the error bound of the gradient computation for an exact distance (the last
\* digit of the long division and the roundings of the product, the quotient
\* and the percentage), in 10^-6 hundredths of a percent
GradientGuard == 4

\* floor(a * b / 2^28) for fixed-point a, b (or 2^16 for the last argument of
\* the degree conversion), by halves of 14 bits
MulFixed(a, b) ==
    LET a1 == a \div 16384
        a0 == a % 16384
        b1 == b \div 16384
        b0 == b % 16384
    IN  a1 * b1 + (a1 * b0 + a0 * b1 + (a0 * b0) \div 16384) \div 16384

\* floor(a * 2^28 / b) for 0 <= a < b, two bits at a time
RECURSIVE DivFixedBits(_, _, _, _)
DivFixedBits(q, r, b, k) ==
    IF k = 0 THEN q
    ELSE DivFixedBits(4 * q + (4 * r) \div b, (4 * r) % b, b, k - 2)

DivFixed(a, b) == DivFixedBits(0, a, b, 28)

\* t - t^3/3 + t^5/5 - ... : the terms from the k-th on, pw = t^(2k+1)
RECURSIVE AtanTerms(_, _, _, _)
AtanTerms(acc, pw, t2, k) ==
    IF k = 12 THEN acc
    ELSE AtanTerms(IF k % 2 = 0 THEN acc + pw \div (2 * k + 1)
                   ELSE acc - pw \div (2 * k + 1),
                   MulFixed(pw, t2), t2, k + 1)

\* atan(t) for 0 <= t <= tan(pi/8)
AtanSeries(t) == AtanTerms(0, t, MulFixed(t, t), 0)

\* atan(y) for 0 <= y <= 1: atan y = pi/4 - atan((1 - y)/(1 + y))
AtanUnit(y) ==
    IF y <= TanPiOver8 THEN AtanSeries(y)
    ELSE PiOver4 - AtanSeries(DivFixed(FixedOne - y, FixedOne + y))

\* math.atan(|vertical_ft / horizontal_ft|) for horizontal_ft # 0, in 2^-28
\* rad: the slope v * 25000 / (dist * 151903) when it is at most 1, and
\* atan x = pi/2 - atan(1/x) beyond
AtanSlope(p) ==
    LET v == Abs(VerticalFt(p))
        dist == Abs(HorizontalFt(p).dist)
        perNm == HorizontalFt(p).ftPerNm \div 4
        atMostOne == dist > 2147483647 \div perNm \/ v * 25000 <= dist * perNm
    IN  IF atMostOne
        THEN AtanUnit(LongDiv2(0, 0, 0, v * 25000, 7, -7, dist, perNm, 16).q)
        ELSE PiOver2 - AtanUnit(LongDiv2(0, 0, 0, dist * perNm, 7, -7, v, 25000, 16).q)

\* math.degrees, to 2^-16 hundredths of a degree
Degrees(rad) == MulFixed(rad, CentiDegPerRad)

\* the most the relative error of the distance can change the angle, in 2^-16
\* hundredths of a degree: |d atan(s)| <= |ds / s| / 2
AngleShift(f) ==
    ApproxInt(ApproxMul(Approx15(CentiDegPerRad, 0), RelativeError(f)))

\* gp_angle_deg = math.degrees(math.atan(vertical_ft / horizontal_ft))
\*                if horizontal_ft else 0, to two decimals
GpAngleDeg(p) ==
    IF HorizontalFt(p).dist = 0 THEN {0}
    ELSE LET a == Degrees(AtanSlope(p))
         IN  {SlopeSign(p) * x :
                 x \in RoundWithin(a \div 65536, a % 65536, 65536,
                                   AngleGuard + AngleShift(DistanceError(p)))}

\* what the relative error of the distance takes from a gradient of m
\* hundredths of a percent, in 10^-6 hundredths of a percent
GradientShift(m, f) ==
    ApproxInt(ApproxMul(ApproxMul(Approx15(m, 0), Approx15(1000000, 0)),
                        RelativeError(f)))

\* the gradient m + frac / 10^6 of the exact distance, less the shift of the
\* distance's error, to two decimals
ShiftedGradient(m, frac, shift, sign) ==
    RoundWithin(m, frac - sign * shift, 1000000, GradientGuard + shift \div 64)

\* the gradient for the double distance f: |vertical_ft| * 10^9 /
\* (dist * FtPerNmX100) hundredths of a percent for the decimal distance dist,
\* the integer part and six more digits, corrected by the error of f
GradientFor(p, f) ==
    LET v == Abs(VerticalFt(p))
        dist == Abs(HorizontalFt(p).dist)
        whole == LongDiv2(0, 0, 0, v, 3, -3, dist, HorizontalFt(p).ftPerNm, 1000)
        frac == LongDiv2(0, whole.r1, whole.r2, 0, -4, -5, dist,
                         HorizontalFt(p).ftPerNm, 1000)
    IN  ShiftedGradient(whole.q, frac.q, GradientShift(whole.q, f), ErrorSign(f))

\* descent_gradient = (vertical_ft / horizontal_ft) * 100 if horizontal_ft else 0,
\* to two decimals
DescentGradient(p) ==
    IF HorizontalFt(p).dist = 0 THEN {0}
    ELSE {SlopeSign(p) * x : x \in GradientFor(p, DistanceError(p))}

(***************************************************************************)
(* The ROD table.                                                          *)
(***************************************************************************)
gs_list == <<80, 100, 120, 140, 160>>

\* altitude_drop = tod_alt - mda
AltitudeDrop(p) == p.tod_alt - p.mda

\* time_minutes = distance_ft / (gs * 6076.12 / 60), i.e. distance * 60 / gs
\* minutes; as a fraction of hundredths of a minute
TimeMinutes(p, gs) == [n |-> 6 * p.faf_mapt_distance, d |-> gs]

\* RodValue with the rate taken per hour of a time in minutes:
\* np.round(altitude_drop / time_minutes * 60 / 10) * 10
RodValueTimes60(p, gs) ==
    LET t == [n |-> 6 * p.faf_mapt_distance, d |-> gs]
        drop == p.tod_alt - p.mda
    IN  IF t.n = 0 THEN {[float |-> "nan", value |-> 0]}
        ELSE {[float |-> "finite", value |-> 10 * r] :
                r \in IF t.n > 0 THEN RoundFloat(600 * drop * t.d, t.n)
                      ELSE RoundFloat(-600 * drop * t.d, -t.n)}

\* rod_values = np.round(altitude_drop / time_minutes / 10) * 10 as a float:
\* finite, or what IEEE division by a zero time gives; the values it can take
RodValue(p, gs) ==
    LET t == TimeMinutes(p, gs)
        drop == AltitudeDrop(p)
    IN  IF t.n = 0
        THEN IF drop > 0 THEN {[float |-> "inf", value |-> 0]}
             ELSE IF drop < 0 THEN {[float |-> "-inf", value |-> 0]}
             ELSE {[float |-> "nan", value |-> 0]}
        ELSE {[float |-> "finite", value |-> 10 * r] :
                r \in IF t.n > 0 THEN RoundFloat(10 * drop * t.d, t.n)
                      ELSE RoundFloat(-10 * drop * t.d, -t.n)}

\* The builds numpy runs on.  Casting a non-finite float to int64 is
\* undefined in C: x86-64 yields INT64_MIN for all of them, AArch64 saturates
\* (nan -> 0).
Builds == {"x86_64", "aarch64"}

\* rod_values.astype(int)
AsTypeInt(x, build) ==
    IF x.float = "finite" THEN [int64 |-> "value", value |-> x.value]
    ELSE IF build = "x86_64" \/ x.float = "-inf"
         THEN [int64 |-> "INT64_MIN", value |-> 0]
    ELSE IF x.float = "inf" THEN [int64 |-> "INT64_MAX", value |-> 0]
    ELSE [int64 |-> "value", value |-> 0]

\* time_minutes.round(2)
TimeRounded(p, gs) ==
    LET t == TimeMinutes(p, gs)
    IN  RoundFloat(t.n, t.d)

\* the rows of rod_df for one ground speed
RodRow(p, gs, build) ==
    {[GS |-> gs, ROD |-> AsTypeInt(x, build), Time |-> t] :
        x \in RodValue(p, gs), t \in TimeRounded(p, gs)}

\* the tables pd.DataFrame({...}) can hold
RodTable(p, build) ==
    SeqProduct([i \in 1..Len(gs_list) |-> RodRow(p, gs_list[i], build)])

(***************************************************************************)
(* One run of the script.  The sidebar widgets hold the input snapshot;    *)
(* the script then computes the geometry, the DME table and the ROD table, *)
(* in that order.  pc is the section of the script that runs next.         *)
(***************************************************************************)
SdfDistanceChoices(i) ==
    {SdfDefault(i).Distance}
        \cup (IF i <= Len(SdfDistanceValues) THEN SdfDistanceValues[i] ELSE {})
SdfAltitudeChoices(i) == {SdfDefault(i).Altitude}

\* the lists the loop over range(sdf_count) can build
SdfLists(c) ==
    LET widgets == UNION {SdfDistanceChoices(i) \X SdfAltitudeChoices(i) : i \in 1..c}
    IN  {[i \in 1..c |-> [Distance |-> w[i][1], Altitude |-> w[i][2],
                          Label |-> SdfLabel(i)]] :
            w \in {x \in [1..c -> widgets] :
                     \A i \in 1..c : /\ x[i][1] \in SdfDistanceChoices(i)
                                     /\ x[i][2] \in SdfAltitudeChoices(i)}}

SdfInputs == UNION {SdfLists(c) : c \in 0..Min(MaxSdfCount, SdfSliderMax)}

Init ==
    /\ \E i \in DOMAIN ElevationValues : elevation = ElevationValues[i]
    /\ \E i \in DOMAIN MdaValues : mda = MdaValues[i]
    /\ \E i \in DOMAIN TodAltValues : tod_alt = TodAltValues[i]
    /\ \E i \in DOMAIN DmeThrValues : dme_thr = DmeThrValues[i]
    /\ \E i \in DOMAIN DmeFafValues : dme_faf = DmeFafValues[i]
    /\ \E i \in DOMAIN DmeMaptValues : dme_mapt = DmeMaptValues[i]
    /\ \E i \in DOMAIN FafMaptDistanceValues :
          faf_mapt_distance = FafMaptDistanceValues[i]
    /\ sdfs \in SdfInputs
    /\ gp_angle_deg = 0
    /\ descent_gradient = 0
    /\ dme_table = <<>>
    /\ rod_df = <<>>
    /\ pc = "geometry"

\* lines 30-37
ComputeGeometry ==
    /\ pc = "geometry"
    /\ gp_angle_deg' \in GpAngleDeg(CurrentInputs)
    /\ descent_gradient' \in DescentGradient(CurrentInputs)
    /\ pc' = "dme_table"
    /\ UNCHANGED <<inputVars, dme_table, rod_df>>

\* lines 39-81
BuildDmeTable ==
    /\ pc = "dme_table"
    /\ dme_table' \in DmeTable(CurrentInputs)
    /\ pc' = "rod_table"
    /\ UNCHANGED <<inputVars, gp_angle_deg, descent_gradient, rod_df>>

\* lines 82-95
BuildRodTable ==
    /\ pc = "rod_table"
    /\ \E build \in Builds : rod_df' \in RodTable(CurrentInputs, build)
    /\ pc' = "done"
    /\ UNCHANGED <<inputVars, gp_angle_deg, descent_gradient, dme_table>>

Next ==
    \/ ComputeGeometry
    \/ BuildDmeTable
    \/ BuildRodTable

Spec == Init /\ [][Next]_vars

(***************************************************************************)
(* Properties.                                                             *)
(***************************************************************************)
GeometryDone == pc # "geometry"
TableBuilt == pc \in {"rod_table", "done"}
RodBuilt == pc = "done"

Rows == 1..Len(dme_table)

\* C1: the DME table has at most 8 rows and its row distances are strictly
\* decreasing from one row to the next.
C1_AtMostEightRowsStrictlyDecreasing ==
    TableBuilt =>
        /\ Len(dme_table) <= 8
        /\ \A i \in Rows : i < Len(dme_table) =>
              dme_table[i].Distance > dme_table[i + 1].Distance

\* C1 witness: more than 8 samples were taken and the table was cut to 8 rows.
C1_Witness ==
    /\ TableBuilt
    /\ Len(KeptPoints(CurrentInputs)) > 8
    /\ Len(dme_table) = 8

\* C2: every row of the table whose distance is at or inside the MAPt
\* distance has an altitude of at least the MDA.
C2_MdaIsFloorInsideMapt ==
    TableBuilt =>
        \A i \in Rows :
            dme_table[i].Distance <= dme_mapt => dme_table[i].Altitude >= mda

\* C3: the table is non-empty, its first row is the FAF (FAF distance, FAF
\* altitude, label "FAF") and its last row is labeled "MAPt" or "THR".
C3_FirstRowFafLastRowMaptOrThr ==
    TableBuilt =>
        /\ Len(dme_table) > 0
        /\ dme_table[1] = [Distance |-> dme_faf, Altitude |-> tod_alt, Fix |-> "FAF"]
        /\ dme_table[Len(dme_table)].Fix \in {"MAPt", "THR"}

\* distances FAF > step-down fixes in order > MAPt > THR, and anchor altitudes
\* FAF >= step-down fixes in order >= MDA >= threshold elevation
WellFormedInput ==
    LET dist == <<dme_faf>> \o [i \in 1..Len(sdfs) |-> sdfs[i].Distance]
                \o <<dme_mapt, dme_thr>>
        alt == <<tod_alt>> \o [i \in 1..Len(sdfs) |-> sdfs[i].Altitude]
               \o <<mda, elevation>>
    IN  \A i \in 1..(Len(dist) - 1) : dist[i] > dist[i + 1] /\ alt[i] >= alt[i + 1]

\* C4: for a well-formed input the altitudes of consecutive rows are
\* non-increasing as the distance decreases.
C4_ProfileNeverClimbs ==
    (TableBuilt /\ WellFormedInput) =>
        \A i \in Rows : i < Len(dme_table) =>
            dme_table[i].Altitude >= dme_table[i + 1].Altitude

\* C5: with at most 8 anchors, every step-down fix between the MAPt and the
\* FAF has a row at its distance with its altitude and its label.
C5_EveryStepDownFixHasItsRow ==
    (TableBuilt /\ Len(sdfs) + 3 <= 8) =>
        \A k \in 1..Len(sdfs) :
            (dme_mapt < sdfs[k].Distance /\ sdfs[k].Distance < dme_faf) =>
                \E i \in Rows :
                    dme_table[i] = [Distance |-> sdfs[k].Distance,
                                    Altitude |-> sdfs[k].Altitude,
                                    Fix |-> sdfs[k].Label]

\* C6: when the horizontal distance FAF - THR is zero or negative, the
\* glide-path angle and the descent gradient are both exactly 0.
C6_DegenerateDistanceGivesZero ==
    (GeometryDone /\ dme_faf - dme_thr <= 0) =>
        gp_angle_deg = 0 /\ descent_gradient = 0

\* n / d is within one half of the integer k (d > 0)
IsNearest(k, n, d) == 2 * Abs(k * d - n) <= d

\* the ROD table has one row per ground speed 80, 100, 120, 140, 160, in order
RodRowsInOrder ==
    /\ Len(rod_df) = 5
    /\ [i \in 1..5 |-> rod_df[i].GS] = <<80, 100, 120, 140, 160>>

\* C7, as the claim states it: one row per ground speed in order, and with
\* timeMin = (distance / gs) * 60 > 0 the rate is
\* round(((drop / timeMin) * 60) / 10) * 10; e.g. 50770 for 120 kt, 5.2 NM and
\* 2200 ft.
C7_RateWithFactorSixty ==
    RodBuilt =>
        /\ RodRowsInOrder
        /\ faf_mapt_distance > 0 => \A i \in 1..5 :
              /\ rod_df[i].ROD.int64 = "value"
              /\ rod_df[i].ROD.value % 10 = 0
              /\ IsNearest(rod_df[i].ROD.value \div 10,
                           100 * rod_df[i].GS * (tod_alt - mda), faf_mapt_distance)

\* C7, amended: one row per ground speed in order, and with
\* timeMin = (distance / gs) * 60 > 0 the row's time is timeMin to two decimals
\* and its rate is round((drop / timeMin) / 10) * 10, a multiple of 10; for
\* 120 kt, 5.2 NM and 2200 ft the time is 2.6 min and the rate is 850.
C7_RateIsDropOverTime ==
    RodBuilt =>
        /\ RodRowsInOrder
        /\ faf_mapt_distance > 0 => \A i \in 1..5 :
              /\ rod_df[i].ROD.int64 = "value"
              /\ rod_df[i].ROD.value % 10 = 0
              /\ IsNearest(rod_df[i].ROD.value \div 10,
                           5 * rod_df[i].GS * (tod_alt - mda), 3 * faf_mapt_distance)
              /\ IsNearest(rod_df[i].Time, 6 * faf_mapt_distance, rod_df[i].GS)
        /\ (faf_mapt_distance = 5200 /\ tod_alt - mda = 2200) =>
              /\ rod_df[3].ROD.value = 850
              /\ rod_df[3].Time = 260

\* C7 witness: the ROD table of the example, 5.2 NM and a drop of 2200 ft.
C7_Witness ==
    /\ RodBuilt
    /\ faf_mapt_distance = 5200
    /\ tod_alt - mda = 2200
    /\ rod_df[3] = [GS |-> 120, ROD |-> [int64 |-> "value", value |-> 850],
                    Time |-> 260]

\* C8: when the FAF-to-MAPt distance is 0, every one of the five ROD rows has
\* rate 0 and time 0, and no infinite, NaN or undefined integer is produced.
C8_ZeroDistanceGivesZeroRate ==
    (RodBuilt /\ faf_mapt_distance = 0) =>
        /\ Len(rod_df) = 5
        /\ \A i \in 1..5 :
              /\ rod_df[i].ROD = [int64 |-> "value", value |-> 0]
              /\ rod_df[i].Time = 0

\* the anchor with the smallest distance >= dme and the anchor with the
\* largest distance <= dme
NearestAbove(fs, dme) ==
    LastAt(fs, {i \in 1..Len(fs) : fs[i].Distance * dme.d >= dme.n})

NearestBelow(fs, dme) ==
    FirstAt(fs, {i \in 1..Len(fs) : fs[i].Distance * dme.d <= dme.n})

\* the altitudes linear interpolation between the two bracketing anchors gives
\* a sample, rounded to an integer after the MDA clamp
BracketedAltitudes(p, dme) ==
    LET fs == Fixes(p)
        a == NearestAbove(fs, dme)
        b == NearestBelow(fs, dme)
        alt == IF a # <<>> /\ b # <<>> /\ a[1] # b[1]
               THEN ClampToMda(p, dme, Interpolate(a[1], b[1], dme))
               ELSE ClampToMda(p, dme, [n |-> p.elevation, d |-> 1])
    IN  RoundFloat(alt.n, alt.d)

\* C9: every unlabeled row has the altitude interpolated between the two
\* anchors that bracket its distance.
C9_InterpolatesBetweenBracketingAnchors ==
    TableBuilt =>
        \A i \in Rows :
            dme_table[i].Fix = "" =>
                dme_table[i].Altitude
                    \in BracketedAltitudes(CurrentInputs, KeptPoints(CurrentInputs)[i])

\* the input of the scenario: no step-down fixes, FAF 3000 ft at 5.2 NM,
\* MAPt = MDA = 800 ft at 0.7 NM, threshold not beyond the MAPt
ScenarioInput ==
    /\ sdfs = <<>>
    /\ tod_alt = 3000 /\ dme_faf = 5200
    /\ mda = 800 /\ dme_mapt = 700
    /\ dme_thr <= dme_mapt

StrictlyDescending ==
    \A i \in Rows : i < Len(dme_table) =>
        /\ dme_table[i].Distance > dme_table[i + 1].Distance
        /\ dme_table[i].Altitude > dme_table[i + 1].Altitude

\* C10: with fewer than 8 anchors the table has exactly 8 rows; in the
\* scenario these are the FAF row, 6 rows with empty labels and the MAPt row,
\* strictly decreasing in distance and altitude.
C10_FilledToEightRows ==
    TableBuilt =>
        /\ Len(Fixes(CurrentInputs)) < 8 => Len(dme_table) = 8
        /\ ScenarioInput =>
              /\ [i \in Rows |-> dme_table[i].Fix]
                    = <<"FAF", "", "", "", "", "", "", "MAPt">>
              /\ StrictlyDescending

====
